---- MODULE Spec2Model ----
(***************************************************************************)
(* cryptfs-cli: a state-machine model of the command-line tool.            *)
(*                                                                         *)
(* One behaviour is a series of invocations of the binary (create, mount,  *)
(* umount) against one repository path and one mount point.  The file      *)
(* system persists between invocations; everything else lives for one      *)
(* invocation.  Each fallible call of the source (a `?`) is one step, and  *)
(* the outcome of every file-system call and of every external command is  *)
(* chosen by the environment.                                              *)
(*                                                                         *)
(* Text is a sequence of atoms (a path, a flag, one character of a         *)
(* stream).  The atom "s" is a character of the decrypted passphrase, "x"  *)
(* a byte that is not valid UTF-8, " " is whitespace.                      *)
(***************************************************************************)
EXTENDS Integers, Sequences, FiniteSets, TLC

\* ------------------------------------------------------------------ bounds
MaxStreamLen == 1
MaxExit == 1

\* --------------------------------------------------------- program constants
\* fs::Permissions::from_mode(0o600) and from_mode(0o700)
SecretMode == 384
DirMode == 448

VARIABLES
    platform,    \* "unix" | "windows": the build (cfg(unix) / cfg(target_os = "windows"))
    fs,          \* the file system: the repository tree and the mount point
    op,          \* Commands::Create | Mount | Umount of this invocation
    user,        \* -u/--user
    options,     \* -o/--options: "none" or the option text
    repoForm,    \* how repo_dir is spelled: "abs" | "rel"
    mpForm,      \* how mount_point is spelled: "abs" | "rel" | "drive"
    utf8,        \* whether the paths given are valid UTF-8
    cwdOk,       \* whether env::current_dir() succeeds in this invocation
    pc,          \* position of the invocation
    children,    \* the child processes spawned by this invocation, in order
    passphrase,  \* the decrypted passphrase held in memory (Windows backend)
    rwo,         \* what the last call of run_with_output returned
    result,      \* what run() returned to main
    exitCode,    \* the exit status of the process, -1 while it runs
    printed,     \* the lines written to stdout and stderr by this invocation
    startFs,     \* history: fs when the invocation started
    faults,      \* history: the failures the environment dealt this invocation
    stage,       \* history: place in a create -> mount -> umount sequence
    chainFaults, \* history: the faults since that sequence began
    leftover     \* history: a failed create left the repository directory behind

args == <<op, user, options, repoForm, mpForm, utf8, cwdOk>>
hist == <<startFs, stage, leftover>>
vars == <<platform, fs, args, pc, children, passphrase, rwo, result, exitCode,
          printed, hist, faults, chainFaults>>

\* ------------------------------------------------------------------- text
SeqsUpTo(S, n) == UNION {[1..k -> S] : k \in 0..n}

Whitespace == {" "}

RECURSIVE TrimStart(_)
TrimStart(s) ==
    IF s = <<>> THEN <<>>
    ELSE IF Head(s) \in Whitespace THEN TrimStart(Tail(s)) ELSE s

RECURSIVE TrimEnd(_)
TrimEnd(s) ==
    IF s = <<>> THEN <<>>
    ELSE IF s[Len(s)] \in Whitespace THEN TrimEnd(SubSeq(s, 1, Len(s) - 1)) ELSE s

Trim(s) == TrimEnd(TrimStart(s))

\* String::from_utf8_lossy: an invalid byte becomes U+FFFD
Lossy(s) == [i \in 1..Len(s) |-> IF s[i] = "x" THEN "U+FFFD" ELSE s[i]]

\* String::from_utf8 succeeds
ValidUtf8(s) == \A i \in 1..Len(s) : s[i] # "x"

Contains(text, part) ==
    \E i \in 0..(Len(text) - Len(part)) :
        \A j \in 1..Len(part) : text[i + j] = part[j]

RECURSIVE Join(_, _)
Join(parts, sep) ==
    IF parts = <<>> THEN <<>>
    ELSE IF Len(parts) = 1 THEN parts[1]
    ELSE parts[1] \o sep \o Join(Tail(parts), sep)

PlainChars == {" ", "e"}
Streams == SeqsUpTo(PlainChars, MaxStreamLen)
\* what gpg --decrypt can write to its stdout: the passphrase, with or without
\* a trailing newline, nothing, whitespace, or bytes that are not UTF-8
SecretStreams == {<<>>, <<" ">>, <<"s">>, <<"s", " ">>, <<"x">>}
\* -u/--user: blank ones and usable ones
Users == {<<>>, <<" ">>, <<"a">>, <<" ", "a", " ">>}
ExitStatuses == 0..MaxExit

\* ------------------------------------------------------------------ paths
RepoPath == "<repo>"
ObjectsPath == "<repo>/objects"
PassphrasePath == "<repo>/passphrase.gpg"
ConfigPath == "<repo>/gocryptfs.conf"
MountPath == "<mount>"

\* ------------------------------------------------------------- file system
\* The modes a directory or a file is born with (0777 or 0666 less the umask).
\* A Windows build has no mode bits: 0.
UmaskDirModes == {DirMode, 7 * 64 + 5 * 8 + 5}
UmaskFileModes == {SecretMode, 6 * 64 + 4 * 8 + 4}
BornDirModes == IF platform = "unix" THEN UmaskDirModes ELSE {0}
BornFileModes == IF platform = "unix" THEN UmaskFileModes ELSE {0}

NoRepo(f) ==
    [f EXCEPT !.repo = "absent", !.repoMode = 0, !.objects = "absent",
              !.objectsMode = 0, !.pp = "absent", !.ppMode = 0,
              !.conf = "absent", !.confMode = 0, !.oconf = "absent"]

EmptyFs ==
    [repo |-> "absent", repoMode |-> 0, objects |-> "absent", objectsMode |-> 0,
     pp |-> "absent", ppMode |-> 0, conf |-> "absent", confMode |-> 0,
     oconf |-> "absent", mp |-> "absent", mpMode |-> 0]

\* The states another program can leave the repository path in.
RepoTrees(f, dm, fm) ==
    {NoRepo(f)}
    \cup {[NoRepo(f) EXCEPT !.repo = k] : k \in {"file", "dangling"}}
    \cup {t \in
          {[NoRepo(f) EXCEPT !.repo = "dir", !.repoMode = dm,
                            !.objects = o,
                            !.objectsMode = IF o = "absent" THEN 0 ELSE dm,
                            !.pp = p,
                            !.ppMode = IF p = "absent" THEN 0 ELSE fm,
                            !.conf = c,
                            !.confMode = IF c = "absent" THEN 0 ELSE fm] :
            o \in {"absent", "dir", "file"}, p \in {"absent", "file", "dir"},
            c \in {"absent", "file"}} :
          t.conf = "file" => (t.objects = "dir" /\ t.pp = "file")}

\* Variant with a bug: is_dir() where the source calls exists().
ExistsAsDirectory(f) == f.repo = "dir"

\* Path::exists: follows symbolic links, false for a dangling link
Exists(f) == f.repo \in {"dir", "file"}

\* Variant with a bug: the check of objects/ is forgotten.
LayoutValidPassphraseOnly(f) == f.repo = "dir" /\ f.pp = "file"

\* passphrase_file.is_file() && cipher_dir.is_dir()
LayoutValid(f) == f.repo = "dir" /\ f.pp = "file" /\ f.objects = "dir"

\* ------------------------------------------------------------------ errors
NoResult == [status |-> "none", kind |-> "none", chain |-> <<>>]
Ok == [status |-> "ok", kind |-> "none", chain |-> <<>>]
Err(kind, chain) == [status |-> "err", kind |-> kind, chain |-> chain]
IoError == <<"os error">>

\* anyhow's .context(msg): msg becomes the head of the chain
Context(msg, e) == [e EXCEPT !.chain = <<msg>> \o e.chain]

\* ---------------------------------------------------------------- commands
Command(program, argv) == [program |-> program, args |-> argv]

\* the backquote that run_with_output puts around the command line
Backtick == "(backquote)"

format_command(cmd) ==
    LET joined == Join(cmd.args, <<" ">>)
    IN  IF joined = <<>> THEN <<cmd.program>>
        ELSE <<cmd.program, " ">> \o joined

ExitStatusText(status) == <<"exit status: ", ToString(status)>>

\* Variant with a bug: the streams are tested with is_empty() before trimming.
run_with_output_untrimmed(cmd, launched, status, stdout, stderr) ==
    LET desc == format_command(cmd)
        errPart == IF stderr # <<>>
                   THEN << <<"stderr: ">> \o Trim(Lossy(stderr)) >> ELSE <<>>
        outPart == IF stdout # <<>>
                   THEN << <<"stdout: ">> \o Trim(Lossy(stdout)) >> ELSE <<>>
        messages == IF errPart \o outPart = <<>>
                    THEN << <<"exit status: ">> \o ExitStatusText(status) >>
                    ELSE errPart \o outPart
    IN  IF ~launched
        THEN [ok |-> FALSE, status |-> -1, stdout |-> <<>>, stderr |-> <<>>,
              err |-> Err("SpawnFailed",
                          << <<"failed to run ", Backtick>> \o desc \o <<Backtick>>,
                             IoError >>)]
        ELSE IF status = 0
        THEN [ok |-> TRUE, status |-> status, stdout |-> stdout,
              stderr |-> stderr, err |-> NoResult]
        ELSE [ok |-> FALSE, status |-> status, stdout |-> stdout,
              stderr |-> stderr,
              err |-> Err("CommandFailed",
                          << <<Backtick>> \o desc \o <<Backtick, " failed: ">>
                             \o Join(messages, <<"\n">>) >>)]

\* process.rs run_with_output, from the outcome of cmd.output():
\* launched is FALSE when the program could not be started.
run_with_output(cmd, launched, status, stdout, stderr) ==
    LET desc == format_command(cmd)
        errPart == IF Trim(Lossy(stderr)) # <<>>
                   THEN << <<"stderr: ">> \o Trim(Lossy(stderr)) >> ELSE <<>>
        outPart == IF Trim(Lossy(stdout)) # <<>>
                   THEN << <<"stdout: ">> \o Trim(Lossy(stdout)) >> ELSE <<>>
        messages == IF errPart \o outPart = <<>>
                    THEN << <<"exit status: ">> \o ExitStatusText(status) >>
                    ELSE errPart \o outPart
    IN  IF ~launched
        THEN [ok |-> FALSE, status |-> -1, stdout |-> <<>>, stderr |-> <<>>,
              err |-> Err("SpawnFailed",
                          << <<"failed to run ", Backtick>> \o desc \o <<Backtick>>, IoError >>)]
        ELSE IF status = 0
        THEN [ok |-> TRUE, status |-> status, stdout |-> stdout,
              stderr |-> stderr, err |-> NoResult]
        ELSE [ok |-> FALSE, status |-> status, stdout |-> stdout,
              stderr |-> stderr,
              err |-> Err("CommandFailed",
                          << <<Backtick>> \o desc \o <<Backtick, " failed: ">>
                             \o Join(messages, <<"\n">>) >>)]

NoReturn ==
    [ok |-> TRUE, status |-> -1, stdout |-> <<>>, stderr |-> <<>>, err |-> NoResult]

GenRandomCmd == Command("gpg", << <<"--gen-random">>, <<"--armor">>, <<"0">>, <<"64">> >>)

EncryptCmd ==
    Command("gpg", << <<"--encrypt">>, <<"--sign">>, <<"-r">>, user, <<"-o">>,
                      <<PassphrasePath>> >>)

DecryptCmd == Command("gpg", << <<"--decrypt">>, <<PassphrasePath>> >>)

ExtpassArg == <<"gpg --decrypt \"", PassphrasePath, "\"">>

GocryptfsInitCmd ==
    Command("gocryptfs", << <<"-init">>, <<"--deterministic-names">>, <<"--config">>,
                            <<ConfigPath>>, <<"-extpass">>, ExtpassArg,
                            <<ObjectsPath>> >>)

GocryptfsMountCmd ==
    Command("gocryptfs", << <<"--config">>, <<ConfigPath>>, <<"-extpass">>, ExtpassArg >>
                         \o (IF options = "none" THEN <<>>
                             ELSE << <<"-o">>, <<options>> >>)
                         \o << <<ObjectsPath>>, <<MountPath>> >>)

FusermountCmd == Command("fusermount", << <<"-u">>, <<MountPath>> >>)

CppInitCmd ==
    Command("cppcryptfsctl.exe", << <<"--init=", ObjectsPath>>,
                                    <<"--volumename=", "repo">>,
                                    <<"--deterministicnames">> >>)

CppMountCmd ==
    Command("cppcryptfs.exe", << <<"--mount=", ObjectsPath>>,
                                 <<"--drive=", MountPath>>,
                                 <<"--password=">> \o TrimEnd(passphrase),
                                 <<"--config=", ConfigPath>>,
                                 <<"-t">>, <<"-x">> >>)

CppUnmountCmd == Command("cppcryptfs.exe", << <<"--unmount=", MountPath>> >>)

\* A child process as this invocation knows it.
\* via is "output" for a child of cmd.output() in run_with_output, "spawn" for
\* one the caller spawns and awaits itself.
Child(cmd, via) ==
    [program |-> cmd.program, args |-> cmd.args, via |-> via, state |-> "running",
     status |-> -1, stdout |-> <<>>, stderr |-> <<>>, stdin |-> <<>>]

Reaped(c, status, stdout, stderr) ==
    [c EXCEPT !.state = "reaped", !.status = status, !.stdout = stdout,
              !.stderr = stderr]


\* ------------------------------------------------------------ bookkeeping
Dealt(F) == faults' = faults \cup F /\ chainFaults' = chainFaults \cup F
NoFault == UNCHANGED <<faults, chainFaults>>

\* An operation returns r to run(), which returns it to main.
Return(r) == result' = r /\ pc' = "return"

Println(line) == printed' = Append(printed, line)

LastChild == children[Len(children)]

ReapLast(status, stdout, stderr) ==
    children' = [children EXCEPT ![Len(children)] = Reaped(@, status, stdout, stderr)]

WideDirMode == IF platform = "unix" THEN 7 * 64 + 5 * 8 + 5 ELSE 0
WideFileMode == IF platform = "unix" THEN 6 * 64 + 4 * 8 + 4 ELSE 0

\* ------------------------------------------------------------------- Init
Init ==
    /\ platform \in {"unix", "windows"}
    /\ fs \in {[t EXCEPT !.mp = m,
                         !.mpMode = IF m = "absent" THEN 0
                                    ELSE IF m = "dir" THEN WideDirMode
                                    ELSE WideFileMode] :
                 t \in RepoTrees(EmptyFs, WideDirMode, WideFileMode),
                 m \in {"absent", "dir", "file"}}
    /\ op = "none" /\ user = <<>> /\ options = "none"
    /\ repoForm = "abs" /\ mpForm = "abs" /\ utf8 = TRUE /\ cwdOk = TRUE
    /\ pc = "idle"
    /\ children = <<>> /\ passphrase = <<>> /\ rwo = NoReturn
    /\ result = NoResult /\ exitCode = -1 /\ printed = <<>>
    /\ startFs = fs /\ faults = {} /\ stage = "none" /\ chainFaults = {}
    /\ leftover = FALSE

\* ------------------------------------------------------- the command line
\* cli.rs Commands and main.rs run(): a new process parses its arguments.
FirstStep(o) ==
    CASE o = "create" -> "create"
      [] o = "mount" -> "mount_normalize"
      [] o = "umount" -> "umount_normalize"

NextStage(o, u) ==
    IF o = "create" /\ fs.repo = "absent" /\ Trim(u) # <<>> THEN "create"
    ELSE IF o = "mount" /\ stage = "create" THEN "mount"
    ELSE IF o = "umount" /\ stage = "mount" THEN "umount"
    ELSE "none"

Invoke ==
    /\ pc = "idle"
    /\ \E o \in {"create", "mount", "umount"}, u \in Users, opt \in {"none", "ro"},
          rf \in {"abs", "rel"},
          mf \in {"abs", "rel"} \cup (IF platform = "windows" THEN {"drive"} ELSE {}),
          u8 \in BOOLEAN, cw \in BOOLEAN :
        /\ o = "create" => opt = "none" /\ mf = "abs"
        /\ o = "mount" => u = <<>>
        /\ o = "umount" => u = <<>> /\ opt = "none" /\ rf = "abs"
        /\ (rf = "abs" /\ mf # "rel") => cw
        /\ op' = o /\ user' = u /\ options' = opt /\ repoForm' = rf
        /\ mpForm' = mf /\ utf8' = u8 /\ cwdOk' = cw
        /\ pc' = FirstStep(o)
        /\ stage' = NextStage(o, u)
        /\ chainFaults' = IF NextStage(o, u) \in {"mount", "umount"}
                          THEN chainFaults ELSE {}
    /\ UNCHANGED <<platform, fs, children, passphrase, rwo, result, exitCode,
                   printed, startFs, faults, leftover>>

\* main.rs main(): print the error chain and exit 1, or exit 0.
ErrorLines(e) ==
    [i \in 1..Len(e.chain) |->
        (IF i = 1 THEN <<"Error: ">> ELSE <<"Caused by: ">>) \o e.chain[i]]

ExitCodeOf(r) == IF r.status = "err" THEN 1 ELSE 0

\* Variant with a bug: main removes what a failed create left behind.
main_with_cleanup ==
    /\ pc = "return"
    /\ pc' = "done"
    /\ exitCode' = ExitCodeOf(result)
    /\ printed' = IF result.status = "err" THEN printed \o ErrorLines(result)
                  ELSE printed
    /\ fs' = IF op = "create" /\ result.status = "err" /\ startFs.repo = "absent"
             THEN NoRepo(fs) ELSE fs
    /\ UNCHANGED <<platform, args, children, passphrase, rwo, result,
                   hist, faults, chainFaults>>

main ==
    /\ pc = "return"
    /\ pc' = "done"
    /\ exitCode' = ExitCodeOf(result)
    /\ printed' = IF result.status = "err" THEN printed \o ErrorLines(result)
                  ELSE printed
    /\ UNCHANGED <<platform, fs, args, children, passphrase, rwo, result,
                   hist, faults, chainFaults>>

\* The process is gone: nothing of it remains but the file system.
exited ==
    /\ pc = "done"
    /\ pc' = "idle"
    /\ op' = "none" /\ user' = <<>> /\ options' = "none"
    /\ repoForm' = "abs" /\ mpForm' = "abs" /\ utf8' = TRUE /\ cwdOk' = TRUE
    /\ children' = <<>> /\ passphrase' = <<>> /\ rwo' = NoReturn
    /\ result' = NoResult /\ exitCode' = -1 /\ printed' = <<>>
    /\ startFs' = fs /\ faults' = {}
    /\ stage' = IF result = Ok THEN stage ELSE "none"
    /\ chainFaults' = IF result = Ok /\ stage \in {"create", "mount"}
                      THEN chainFaults ELSE {}
    /\ leftover' = IF /\ op = "create" /\ result.status = "err"
                      /\ startFs.repo # "dir" /\ fs.repo = "dir"
                   THEN TRUE ELSE leftover
    /\ UNCHANGED <<platform, fs>>

\* Another program changes the repository tree between two invocations.
ExternalModify ==
    /\ pc = "idle"
    /\ \E t \in RepoTrees(fs, WideDirMode, WideFileMode) :
        /\ t # fs
        /\ fs' = t
        /\ startFs' = t
    /\ stage' = "none" /\ leftover' = FALSE /\ chainFaults' = {}
    /\ UNCHANGED <<platform, args, pc, children, passphrase, rwo, result, exitCode,
                   printed, faults>>

\* ------------------------------------------------------------ path helpers
\* ops/mod.rs absolute_path: only a relative path asks for the current directory
absolute_path(form, cwd) == form = "abs" \/ cwd

\* ops/mod.rs is_windows_drive_letter, which is false off Windows
is_windows_drive_letter(form) == platform = "windows" /\ form = "drive"

\* ops/mod.rs normalize_mount_point: TRUE when it returns Ok
normalize_mount_point(form, cwd) ==
    IF platform = "windows"
    THEN is_windows_drive_letter(form) \/ form = "abs" \/ cwd
    ELSE form = "abs" \/ cwd

\* -------------------------------------------------------- fs primitives
\* fs::set_permissions(path, mode): the field of fs that holds the entry's
\* kind, whether the call can succeed, and fs after it succeeded.
CanChmod(f, entry) == f[entry] # "absent" /\ f.repo = "dir"

Chmod(f, entry, mode) ==
    CASE entry = "repo" -> [f EXCEPT !.repoMode = mode]
      [] entry = "objects" -> [f EXCEPT !.objectsMode = mode]
      [] entry = "pp" -> [f EXCEPT !.ppMode = mode]
      [] entry = "conf" -> [f EXCEPT !.confMode = mode]

\* #[cfg(unix)] set_dir_mode / set_secret_mode; the #[cfg(not(unix))] ones
\* return Ok(()) and do nothing.  okk is the environment's answer: FALSE when
\* it refuses the call (the fault "io"); a call on a missing entry fails anyway.
SetMode(entry, mode, okk, nextPc, what) ==
    IF platform # "unix"
    THEN /\ okk
         /\ pc' = nextPc
         /\ UNCHANGED <<fs, result>>
         /\ NoFault
    ELSE IF okk /\ CanChmod(fs, entry)
    THEN /\ fs' = Chmod(fs, entry, mode)
         /\ pc' = nextPc
         /\ UNCHANGED result
         /\ NoFault
    ELSE /\ Return(Err("IoFailed", <<what, IoError>>))
         /\ Dealt(IF okk THEN {} ELSE {"io"})
         /\ UNCHANGED fs

set_dir_mode(entry, okk, nextPc) ==
    SetMode(entry, DirMode, okk, nextPc,
            <<"failed to set directory permissions on '", entry, "'">>)

\* Variant with a bug: the unix build compiled with the do-nothing body.
set_secret_mode_skipped(entry, okk, nextPc) ==
    /\ okk
    /\ pc' = nextPc
    /\ UNCHANGED <<fs, result>>
    /\ NoFault

set_secret_mode(entry, okk, nextPc) ==
    SetMode(entry, SecretMode, okk, nextPc,
            <<"failed to set permissions on '", entry, "'">>)

\* fs::create_dir_all(repo_dir/objects): what it can do to the tree.
\*   "ok"      both directories exist afterwards
\*   "partial" repo_dir was made, objects was not
\*   "fail"    nothing was made
CreateDirAllOutcomes(f) ==
    CASE f.repo = "absent" -> {"ok", "partial", "fail"}
      [] f.repo = "dir" /\ f.objects = "dir" -> {"ok"}
      [] f.repo = "dir" /\ f.objects = "absent" -> {"ok", "fail"}
      [] OTHER -> {"fail"}

\* Variant with a bug: create_dir_all(&repo_dir) where the source passes objects_dir.
CreateDirAllRepoOnly(f, outcome, dm) ==
    IF outcome = "fail" \/ f.repo # "absent" THEN f
    ELSE [f EXCEPT !.repo = "dir", !.repoMode = dm]

CreateDirAll(f, outcome, dm) ==
    LET withRepo == IF f.repo = "absent"
                    THEN [f EXCEPT !.repo = "dir", !.repoMode = dm] ELSE f
    IN  CASE outcome = "ok" ->
               IF withRepo.objects = "dir" THEN withRepo
               ELSE [withRepo EXCEPT !.objects = "dir", !.objectsMode = dm]
          [] outcome = "partial" -> withRepo
          [] outcome = "fail" -> f

\* ------------------------------------------------------------------ create
\* Variant with a bug: user.is_empty() where the source calls user.trim().is_empty().
CreateChecksNoTrim(u, form, cwd, f) ==
    IF u = <<>>
    THEN Err("InvalidInput", << <<"GPG user/email is required (-u/--user)">> >>)
    ELSE IF ~(form = "abs" \/ cwd)
    THEN Err("IoFailed", <<IoError>>)
    ELSE IF f.repo \in {"dir", "file"}
    THEN Err("AlreadyExists", << <<"directory '", RepoPath, "' already exists">> >>)
    ELSE NoResult

\* ops/mod.rs create, lines 15-22: the checks before anything is written.
CreateChecks(u, form, cwd, f) ==
    IF Trim(u) = <<>>
    THEN Err("InvalidInput", << <<"GPG user/email is required (-u/--user)">> >>)
    ELSE IF ~absolute_path(form, cwd)
    THEN Err("IoFailed", <<IoError>>)
    ELSE IF Exists(f)
    THEN Err("AlreadyExists", << <<"directory '", RepoPath, "' already exists">> >>)
    ELSE NoResult

create_validate ==
    /\ pc = "create"
    /\ LET r == CreateChecks(user, repoForm, cwdOk, fs)
       IN  /\ IF r = NoResult
              THEN pc' = "create_dir_all" /\ UNCHANGED result
              ELSE Return(r)
           /\ IF r.kind = "IoFailed" THEN Dealt({"cwd"}) ELSE NoFault
    /\ UNCHANGED <<platform, fs, args, children, passphrase, rwo, exitCode,
                   printed, hist>>

create_dir_all ==
    /\ pc = "create_dir_all"
    /\ \E outcome \in CreateDirAllOutcomes(fs), dm \in BornDirModes :
        /\ fs' = CreateDirAll(fs, outcome, dm)
        /\ IF outcome = "ok"
           THEN pc' = "set_dir_mode_repo" /\ UNCHANGED result /\ NoFault
           ELSE /\ Return(Err("IoFailed",
                    << <<"failed to create repository directories under '",
                         RepoPath, "'">>, IoError >>))
                /\ Dealt({"io"})
    /\ UNCHANGED <<platform, args, children, passphrase, rwo, exitCode, printed,
                   hist>>

set_dir_mode_repo ==
    /\ pc = "set_dir_mode_repo"
    /\ \E okk \in BOOLEAN : set_dir_mode("repo", okk, "set_dir_mode_objects")
    /\ UNCHANGED <<platform, args, children, passphrase, rwo, exitCode, printed,
                   hist>>

set_dir_mode_objects ==
    /\ pc = "set_dir_mode_objects"
    /\ \E okk \in BOOLEAN : set_dir_mode("objects", okk, "generate_encrypted_passphrase")
    /\ UNCHANGED <<platform, args, children, passphrase, rwo, exitCode, printed,
                   hist>>


\* ------------------------------------------- generate_encrypted_passphrase
gen_random_spawn ==
    /\ pc = "generate_encrypted_passphrase"
    /\ Println(<<"Generating and encrypting passphrase with GPG...">>)
    /\ \E launched \in BOOLEAN :
        IF launched
        THEN /\ children' = Append(children, Child(GenRandomCmd, "spawn"))
             /\ pc' = "encrypt_spawn"
             /\ UNCHANGED result
             /\ NoFault
        ELSE /\ Return(Err("SpawnFailed",
                           << <<"failed to start gpg --gen-random">>, IoError >>))
             /\ Dealt({"spawn"})
             /\ UNCHANGED children
    /\ UNCHANGED <<platform, fs, args, passphrase, rwo, exitCode, hist>>

encrypt_spawn ==
    /\ pc = "encrypt_spawn"
    /\ \E launched \in BOOLEAN :
        IF launched
        THEN /\ children' = Append(children, Child(EncryptCmd, "spawn"))
             /\ pc' = "encrypt_wait"
             /\ UNCHANGED result
             /\ NoFault
        ELSE /\ Return(Err("SpawnFailed",
                           << <<"failed to start gpg --encrypt pipeline">>, IoError >>))
             /\ Dealt({"spawn"})
             /\ UNCHANGED children
    /\ UNCHANGED <<platform, fs, args, passphrase, rwo, exitCode, printed, hist>>

\* gpg --encrypt -o passphrase.gpg ends: it may or may not have written the file.
WritePassphraseFile(f, wrote, fm) ==
    IF wrote /\ f.repo = "dir" THEN [f EXCEPT !.pp = "file", !.ppMode = fm] ELSE f

\* encrypt_child.wait_with_output()
encrypt_wait ==
    /\ pc = "encrypt_wait"
    /\ \E status \in ExitStatuses, stderr \in Streams, wrote \in BOOLEAN,
          fm \in BornFileModes :
        /\ wrote \/ fm = WideFileMode
        /\ ReapLast(status, <<>>, stderr)
        /\ fs' = WritePassphraseFile(fs, wrote, fm)
        /\ Dealt((IF status # 0 THEN {"exit"} ELSE {})
                 \cup (IF wrote THEN {} ELSE {"effect"}))
    /\ pc' = "gen_random_wait"
    /\ UNCHANGED <<platform, args, passphrase, rwo, result, exitCode, printed, hist>>

\* Variant with a bug: the generator's exit status is not looked at.
PipelineResultEncryptorOnly(randomStatus, encryptStatus, encryptStderr) ==
    IF encryptStatus # 0
    THEN Err("CommandFailed",
             << <<"gpg failed to encrypt passphrase: ">>
                \o Trim(Lossy(encryptStderr)) >>)
    ELSE NoResult

\* ops/mod.rs lines 183-192: the two exit statuses decide the step.
PipelineResult(randomStatus, encryptStatus, encryptStderr) ==
    IF randomStatus # 0
    THEN Err("CommandFailed",
             << <<"gpg --gen-random failed with status ">>
                \o ExitStatusText(randomStatus) >>)
    ELSE IF encryptStatus # 0
    THEN Err("CommandFailed",
             << <<"gpg failed to encrypt passphrase: ">>
                \o Trim(Lossy(encryptStderr)) >>)
    ELSE NoResult

\* random_child.wait(), then the checks; on Ok(()) encrypt_output goes out
\* of scope and the stderr it captured with it.
gen_random_wait ==
    /\ pc = "gen_random_wait"
    /\ \E status \in ExitStatuses :
        /\ Dealt(IF status # 0 THEN {"exit"} ELSE {})
        /\ LET r == PipelineResult(status, children[2].status, children[2].stderr)
           IN  IF r = NoResult
               THEN /\ children' = [children EXCEPT
                                       ![1] = Reaped(@, status, <<>>, <<>>),
                                       ![2].stderr = <<>>]
                    /\ pc' = "set_secret_mode_passphrase"
                    /\ UNCHANGED result
               ELSE /\ children' = [children EXCEPT
                                       ![1] = Reaped(@, status, <<>>, <<>>)]
                    /\ Return(r)
    /\ UNCHANGED <<platform, fs, args, passphrase, rwo, exitCode, printed, hist>>

set_secret_mode_passphrase ==
    /\ pc = "set_secret_mode_passphrase"
    /\ \E okk \in BOOLEAN : set_secret_mode("pp", okk, "init_repository")
    /\ UNCHANGED <<platform, args, children, passphrase, rwo, exitCode, printed,
                   hist>>

\* ----------------------------------------------- calls of run_with_output
WithContext(ctx, e) == IF ctx = <<>> THEN e ELSE Context(ctx, e)

\* cmd.output() starts the program, or fails to.
RunSpawn(cmd, ctx, waitPc) ==
    \E launched \in BOOLEAN :
        IF launched
        THEN /\ children' = Append(children, Child(cmd, "output"))
             /\ pc' = waitPc
             /\ UNCHANGED <<rwo, result>>
             /\ NoFault
        ELSE /\ rwo' = run_with_output(cmd, FALSE, 0, <<>>, <<>>)
             /\ Return(WithContext(ctx, rwo'.err))
             /\ Dealt({"spawn"})
             /\ UNCHANGED children

\* cmd.output() returns what the program wrote and its exit status.
RunReturn(status, stdout, stderr) ==
    run_with_output(Command(LastChild.program, LastChild.args), TRUE,
                    status, stdout, stderr)

\* --------------------------------------------------- ops/linux.rs backend
linux_init_spawn ==
    /\ pc = "init_repository" /\ platform = "unix"
    /\ Println(<<"Initializing gocryptfs...">>)
    /\ IF ~utf8
       THEN /\ Return(Err("InvalidInput",
                          << <<"repository path is not valid UTF-8">> >>))
            /\ Dealt({"utf8"})
            /\ UNCHANGED <<children, rwo>>
       ELSE RunSpawn(GocryptfsInitCmd, <<"gocryptfs init failed">>, "linux_init_wait")
    /\ UNCHANGED <<platform, fs, args, passphrase, exitCode, hist>>

\* gocryptfs -init --config gocryptfs.conf ends: it may have written the file.
WriteConfig(f, wrote, fm) ==
    IF wrote /\ f.repo = "dir" THEN [f EXCEPT !.conf = "file", !.confMode = fm] ELSE f

linux_init_wait ==
    /\ pc = "linux_init_wait"
    /\ \E status \in ExitStatuses, stdout \in Streams, stderr \in Streams,
          wrote \in BOOLEAN :
        /\ rwo' = RunReturn(status, stdout, stderr)
        /\ ReapLast(status, stdout, stderr)
        /\ fs' = WriteConfig(fs, wrote, WideFileMode)
        /\ Dealt((IF status # 0 THEN {"exit"} ELSE {})
                 \cup (IF wrote THEN {} ELSE {"effect"}))
        /\ IF rwo'.ok
           THEN pc' = "linux_init_set_secret_mode" /\ UNCHANGED result
           ELSE Return(Context(<<"gocryptfs init failed">>, rwo'.err))
    /\ UNCHANGED <<platform, args, passphrase, exitCode, printed, hist>>

linux_init_set_secret_mode ==
    /\ pc = "linux_init_set_secret_mode"
    /\ \E okk \in BOOLEAN : set_secret_mode("conf", okk, "repository_created")
    /\ UNCHANGED <<platform, args, children, passphrase, rwo, exitCode, printed,
                   hist>>

\* the last two lines of either init_repository
repository_created ==
    /\ pc = "repository_created"
    /\ Println(<<"Repository created successfully at '", RepoPath, "'">>)
    /\ Return(Ok)
    /\ NoFault
    /\ UNCHANGED <<platform, fs, args, children, passphrase, rwo, exitCode, hist>>

linux_mount_spawn ==
    /\ pc = "mount_repository" /\ platform = "unix"
    /\ Println(<<"Mounting gocryptfs...">>)
    /\ IF ~utf8
       THEN /\ Return(Err("InvalidInput",
                          << <<"repository path is not valid UTF-8">> >>))
            /\ Dealt({"utf8"})
            /\ UNCHANGED <<children, rwo>>
       ELSE RunSpawn(GocryptfsMountCmd, <<"gocryptfs mount failed">>, "linux_mount_wait")
    /\ UNCHANGED <<platform, fs, args, passphrase, exitCode, hist>>

linux_mount_wait ==
    /\ pc = "linux_mount_wait"
    /\ \E status \in ExitStatuses, stdout \in Streams, stderr \in Streams :
        /\ rwo' = RunReturn(status, stdout, stderr)
        /\ ReapLast(status, stdout, stderr)
        /\ Dealt(IF status # 0 THEN {"exit"} ELSE {})
        /\ IF rwo'.ok
           THEN /\ Return(Ok)
                /\ Println(<<"Mounted '", ObjectsPath, "' at '", MountPath, "'">>)
           ELSE /\ Return(Context(<<"gocryptfs mount failed">>, rwo'.err))
                /\ UNCHANGED printed
    /\ UNCHANGED <<platform, fs, args, passphrase, exitCode, hist>>

linux_umount_spawn ==
    /\ pc = "umount_repository" /\ platform = "unix"
    /\ Println(<<"Unmounting '", MountPath, "'...">>)
    /\ IF ~utf8
       THEN /\ Return(Err("InvalidInput", << <<"mount point is not valid UTF-8">> >>))
            /\ Dealt({"utf8"})
            /\ UNCHANGED <<children, rwo>>
       ELSE RunSpawn(FusermountCmd, <<"fusermount failed">>, "linux_umount_wait")
    /\ UNCHANGED <<platform, fs, args, passphrase, exitCode, hist>>

linux_umount_wait ==
    /\ pc = "linux_umount_wait"
    /\ \E status \in ExitStatuses, stdout \in Streams, stderr \in Streams :
        /\ rwo' = RunReturn(status, stdout, stderr)
        /\ ReapLast(status, stdout, stderr)
        /\ Dealt(IF status # 0 THEN {"exit"} ELSE {})
        /\ IF rwo'.ok
           THEN /\ Return(Ok)
                /\ Println(<<"Unmounted '", MountPath, "' successfully.">>)
           ELSE /\ Return(Context(<<"fusermount failed">>, rwo'.err))
                /\ UNCHANGED printed
    /\ UNCHANGED <<platform, fs, args, passphrase, exitCode, hist>>


\* ------------------------------------------------- ops/windows.rs backend
\* ops/mod.rs decrypt_passphrase, called first by init_repository and by
\* mount_repository of the Windows backend.
decrypt_spawn ==
    /\ pc \in {"init_repository", "mount_repository"} /\ platform = "windows"
    /\ Println(IF op = "create" THEN <<"Initializing cppcryptfs...">>
               ELSE <<"Decrypting passphrase...">>)
    /\ RunSpawn(DecryptCmd, <<>>, "decrypt_wait")
    /\ UNCHANGED <<platform, fs, args, passphrase, exitCode, hist>>

\* String::from_utf8(output.stdout).context("passphrase is not valid UTF-8")
DecodePassphrase(stdout) ==
    IF ValidUtf8(stdout) THEN NoResult
    ELSE Err("InvalidInput", << <<"passphrase is not valid UTF-8">>,
                                <<"invalid utf-8 sequence">> >>)

\* let output = run_with_output(&mut cmd)?;
decrypt_wait ==
    /\ pc = "decrypt_wait"
    /\ \E status \in ExitStatuses, stdout \in SecretStreams, stderr \in Streams :
        /\ rwo' = RunReturn(status, stdout, stderr)
        /\ ReapLast(status, stdout, stderr)
        /\ IF ~rwo'.ok
           THEN /\ Return(rwo'.err)
                /\ Dealt({"exit"})
           ELSE /\ pc' = "decrypt_decode"
                /\ UNCHANGED result
                /\ NoFault
    /\ UNCHANGED <<platform, fs, args, passphrase, exitCode, printed, hist>>

\* String::from_utf8(output.stdout) consumes the Output: of what gpg wrote,
\* only the String returned to the backend remains.
decrypt_decode ==
    /\ pc = "decrypt_decode"
    /\ children' = [children EXCEPT ![Len(children)].stdout = <<>>,
                                    ![Len(children)].stderr = <<>>]
    /\ rwo' = NoReturn
    /\ IF DecodePassphrase(rwo.stdout) # NoResult
       THEN /\ Return(DecodePassphrase(rwo.stdout))
            /\ Dealt({"effect"})
            /\ UNCHANGED passphrase
       ELSE /\ passphrase' = rwo.stdout
            /\ pc' = IF op = "create" THEN "windows_init_spawn"
                     ELSE "windows_mount_spawn"
            /\ UNCHANGED result
            /\ NoFault
    /\ UNCHANGED <<platform, fs, args, exitCode, printed, hist>>

windows_init_spawn ==
    /\ pc = "windows_init_spawn"
    /\ \E launched \in BOOLEAN :
        IF launched
        THEN /\ children' = Append(children, Child(CppInitCmd, "spawn"))
             /\ pc' = "windows_init_write"
             /\ UNCHANGED result
             /\ NoFault
        ELSE /\ Return(Err("SpawnFailed",
                           << <<"failed to start cppcryptfsctl.exe">>, IoError >>))
             /\ Dealt({"spawn"})
             /\ UNCHANGED children
    /\ UNCHANGED <<platform, fs, args, passphrase, rwo, exitCode, printed, hist>>

\* stdin.write_all(passphrase.trim_end().as_bytes())
windows_init_write ==
    /\ pc = "windows_init_write"
    /\ \E okk \in BOOLEAN :
        IF okk
        THEN /\ children' = [children EXCEPT
                                ![Len(children)].stdin = TrimEnd(passphrase)]
             /\ pc' = "windows_init_wait"
             /\ UNCHANGED result
             /\ NoFault
        ELSE /\ Return(Err("IoFailed",
                           << <<"failed to send passphrase to cppcryptfsctl.exe">>,
                              IoError >>))
             /\ Dealt({"io"})
             /\ UNCHANGED children
    /\ UNCHANGED <<platform, fs, args, passphrase, rwo, exitCode, printed, hist>>

\* cppcryptfsctl.exe --init=objects ends: it may have written objects/gocryptfs.conf.
WriteObjectsConfig(f, wrote) ==
    IF wrote /\ f.objects = "dir" THEN [f EXCEPT !.oconf = "file"] ELSE f

\* ops/windows.rs lines 36-39
CppInitResult(status, stderr) ==
    IF status # 0
    THEN Err("CommandFailed",
             << <<"cppcryptfsctl.exe failed: ">> \o Trim(Lossy(stderr)) >>)
    ELSE NoResult

windows_init_wait ==
    /\ pc = "windows_init_wait"
    /\ \E status \in ExitStatuses, stderr \in Streams, wrote \in BOOLEAN :
        /\ ReapLast(status, <<>>, stderr)
        /\ fs' = WriteObjectsConfig(fs, wrote)
        /\ Dealt((IF status # 0 THEN {"exit"} ELSE {})
                 \cup (IF wrote THEN {} ELSE {"effect"}))
        /\ IF CppInitResult(status, stderr) = NoResult
           THEN pc' = "windows_init_rename" /\ UNCHANGED result
           ELSE Return(CppInitResult(status, stderr))
    /\ UNCHANGED <<platform, args, passphrase, rwo, exitCode, printed, hist>>

\* fs::rename(objects/gocryptfs.conf, repo_dir/gocryptfs.conf), then
\* set_secret_mode, which does nothing on this build.
windows_init_rename ==
    /\ pc = "windows_init_rename"
    /\ \E okk \in BOOLEAN :
        IF okk /\ fs.oconf = "file"
        THEN /\ fs' = [fs EXCEPT !.conf = "file", !.confMode = 0,
                                 !.oconf = "absent"]
             /\ pc' = "repository_created"
             /\ UNCHANGED result
             /\ NoFault
        ELSE /\ Return(Err("IoFailed",
                           << <<"failed to move gocryptfs.conf">>, IoError >>))
             /\ Dealt(IF okk THEN {} ELSE {"io"})
             /\ UNCHANGED fs
    /\ UNCHANGED <<platform, args, children, passphrase, rwo, exitCode, printed,
                   hist>>

windows_mount_spawn ==
    /\ pc = "windows_mount_spawn"
    /\ IF ~utf8
       THEN /\ Return(Err("InvalidInput", << <<"mount point is not valid UTF-8">> >>))
            /\ Dealt({"utf8"})
            /\ UNCHANGED <<children, rwo, printed>>
       ELSE /\ IF options = "none" THEN UNCHANGED printed
               ELSE Println(<<"Note: mount options are ignored on Windows (received: ",
                              options, ")">>)
            /\ RunSpawn(CppMountCmd, <<"cppcryptfs.exe mount failed">>,
                        "windows_mount_wait")
    /\ UNCHANGED <<platform, fs, args, passphrase, exitCode, hist>>

windows_mount_wait ==
    /\ pc = "windows_mount_wait"
    /\ \E status \in ExitStatuses, stdout \in Streams, stderr \in Streams :
        /\ rwo' = RunReturn(status, stdout, stderr)
        /\ ReapLast(status, stdout, stderr)
        /\ Dealt(IF status # 0 THEN {"exit"} ELSE {})
        /\ IF rwo'.ok
           THEN /\ Return(Ok)
                /\ Println(<<"Mounted '", ObjectsPath, "' at '", MountPath, "'">>)
           ELSE /\ Return(Context(<<"cppcryptfs.exe mount failed">>, rwo'.err))
                /\ UNCHANGED printed
    /\ UNCHANGED <<platform, fs, args, passphrase, exitCode, hist>>

windows_umount_spawn ==
    /\ pc = "umount_repository" /\ platform = "windows"
    /\ Println(<<"Unmounting '", MountPath, "'...">>)
    /\ IF ~utf8
       THEN /\ Return(Err("InvalidInput", << <<"mount point is not valid UTF-8">> >>))
            /\ Dealt({"utf8"})
            /\ UNCHANGED <<children, rwo>>
       ELSE RunSpawn(CppUnmountCmd, <<"cppcryptfs.exe unmount failed">>,
                     "windows_umount_wait")
    /\ UNCHANGED <<platform, fs, args, passphrase, exitCode, hist>>

windows_umount_wait ==
    /\ pc = "windows_umount_wait"
    /\ \E status \in ExitStatuses, stdout \in Streams, stderr \in Streams :
        /\ rwo' = RunReturn(status, stdout, stderr)
        /\ ReapLast(status, stdout, stderr)
        /\ Dealt(IF status # 0 THEN {"exit"} ELSE {})
        /\ IF rwo'.ok
           THEN /\ Return(Ok)
                /\ Println(<<"Unmounted '", MountPath, "' successfully.">>)
           ELSE /\ Return(Context(<<"cppcryptfs.exe unmount failed">>, rwo'.err))
                /\ UNCHANGED printed
    /\ UNCHANGED <<platform, fs, args, passphrase, exitCode, hist>>

\* ------------------------------------------------------- mount and umount
\* main.rs run(): ops::normalize_mount_point(&mount_point)? before the call
normalize ==
    /\ pc \in {"mount_normalize", "umount_normalize"}
    /\ IF normalize_mount_point(mpForm, cwdOk)
       THEN /\ pc' = IF op = "mount" THEN "mount" ELSE "umount_repository"
            /\ UNCHANGED result
            /\ NoFault
       ELSE /\ Return(Err("IoFailed", <<IoError>>))
            /\ Dealt({"cwd"})
    /\ UNCHANGED <<platform, fs, args, children, passphrase, rwo, exitCode,
                   printed, hist>>

\* ops/mod.rs mount, lines 52-61
MountChecks(form, cwd, f) ==
    IF ~absolute_path(form, cwd)
    THEN Err("IoFailed", <<IoError>>)
    ELSE IF ~LayoutValid(f)
    THEN Err("InvalidRepository",
             << <<"repository layout is invalid under '", RepoPath,
                  "': expected passphrase.gpg and objects/">> >>)
    ELSE NoResult

mount_validate ==
    /\ pc = "mount"
    /\ LET r == MountChecks(repoForm, cwdOk, fs)
       IN  /\ IF r = NoResult
              THEN pc' = "ensure_mount_point_exists" /\ UNCHANGED result
              ELSE Return(r)
           /\ IF r.kind = "IoFailed" THEN Dealt({"cwd"}) ELSE NoFault
    /\ UNCHANGED <<platform, fs, args, children, passphrase, rwo, exitCode,
                   printed, hist>>

\* ops/mod.rs ensure_mount_point_exists: what the environment lets it do
\*   "ok"     nothing to do, or the directory was made (and set to 0700 on unix)
\*   "mkdir"  create_dir_all failed
\*   "chmod"  the directory was made, set_permissions failed (unix only)
MountPointOutcomes(f, form) ==
    IF is_windows_drive_letter(form) \/ f.mp = "dir" THEN {"ok"}
    ELSE IF f.mp = "file" THEN {"mkdir"}
    ELSE {"ok", "mkdir"} \cup (IF platform = "unix" THEN {"chmod"} ELSE {})

MountPointAfter(f, form, outcome, dm) ==
    IF is_windows_drive_letter(form) \/ f.mp = "dir" \/ outcome = "mkdir" THEN f
    ELSE IF outcome = "chmod" THEN [f EXCEPT !.mp = "dir", !.mpMode = dm]
    ELSE [f EXCEPT !.mp = "dir",
                   !.mpMode = IF platform = "unix" THEN DirMode ELSE dm]

ensure_mount_point_exists ==
    /\ pc = "ensure_mount_point_exists"
    /\ \E outcome \in MountPointOutcomes(fs, mpForm), dm \in BornDirModes :
        /\ outcome # "chmod" => dm = WideDirMode
        /\ fs' = MountPointAfter(fs, mpForm, outcome, dm)
        /\ CASE outcome = "ok" ->
                  pc' = "mount_repository" /\ UNCHANGED result /\ NoFault
             [] outcome = "mkdir" ->
                  /\ Return(Err("IoFailed",
                        << <<"failed to create mount point '", MountPath, "'">>,
                           IoError >>))
                  /\ Dealt({"io"})
             [] outcome = "chmod" ->
                  /\ Return(Err("IoFailed",
                        << <<"unable to set mount point permissions to 700">>,
                           IoError >>))
                  /\ Dealt({"io"})
    /\ UNCHANGED <<platform, args, children, passphrase, rwo, exitCode, printed,
                   hist>>

\* ------------------------------------------------------------------- Next
Next ==
    \/ Invoke
    \/ main
    \/ exited
    \/ ExternalModify
    \/ create_validate
    \/ create_dir_all
    \/ set_dir_mode_repo
    \/ set_dir_mode_objects
    \/ gen_random_spawn
    \/ encrypt_spawn
    \/ encrypt_wait
    \/ gen_random_wait
    \/ set_secret_mode_passphrase
    \/ linux_init_spawn
    \/ linux_init_wait
    \/ linux_init_set_secret_mode
    \/ repository_created
    \/ linux_mount_spawn
    \/ linux_mount_wait
    \/ linux_umount_spawn
    \/ linux_umount_wait
    \/ decrypt_spawn
    \/ decrypt_wait
    \/ decrypt_decode
    \/ windows_init_spawn
    \/ windows_init_write
    \/ windows_init_wait
    \/ windows_init_rename
    \/ windows_mount_spawn
    \/ windows_mount_wait
    \/ windows_umount_spawn
    \/ windows_umount_wait
    \/ normalize
    \/ mount_validate
    \/ ensure_mount_point_exists

Spec == Init /\ [][Next]_vars


\* =================================================================== claims
Finished == pc \in {"return", "done"}
IsBlank(u) == \A i \in 1..Len(u) : u[i] = " "
Unchanged == fs = startFs
NothingLaunched == children = <<>>

\* A text shows the passphrase this process decrypted and holds in memory.
Exposes(text) ==
    /\ TrimEnd(passphrase) # <<>>
    /\ Contains(text, TrimEnd(passphrase))

\* C1: on either backend and whatever the outcome of create and mount, the
\* decrypted passphrase never appears in a line this tool prints nor in an
\* error message it returns (the command line that run_with_output formats
\* into its error included).
C1_PassphraseNeverShown ==
    /\ \A i \in 1..Len(printed) : ~Exposes(printed[i])
    /\ \A i \in 1..Len(result.chain) : ~Exposes(result.chain[i])

PipelineConcluded ==
    /\ op = "create"
    /\ Len(children) >= 2
    /\ pc \notin {"encrypt_wait", "gen_random_wait"}

\* C2: in generate_encrypted_passphrase, once both gpg stages are spawned both
\* are awaited, the step fails if either exits non-zero, and whenever the
\* encryptor exits non-zero the error reported is the encryptor's stderr, also
\* when the generator exited non-zero as well.
C2_PipelinePrefersEncryptor ==
    PipelineConcluded =>
        /\ children[1].state = "reaped" /\ children[2].state = "reaped"
        /\ (children[1].status # 0 \/ children[2].status # 0)
              => result.status = "err"
        /\ children[2].status # 0
              => result = Err("CommandFailed",
                              << <<"gpg failed to encrypt passphrase: ">>
                                 \o Trim(children[2].stderr) >>)


OwnerOnlyLayout(f) ==
    /\ f.repo = "dir" /\ f.repoMode = DirMode
    /\ f.objects = "dir" /\ f.objectsMode = DirMode
    /\ f.pp = "file" /\ f.ppMode = SecretMode
    /\ f.conf = "absent" /\ f.oconf = "absent"

AtDelegation == op = "create" /\ pc = "init_repository"

\* C3 as claimed: whenever create hands over to the backend's init_repository,
\* on either build, the target holds exactly passphrase.gpg with mode 0600 and
\* objects/ with mode 0700, and is itself 0700.
C3_BackendSeesOwnerOnlyLayout == AtDelegation => OwnerOnlyLayout(fs)

\* C3 amended: on a unix build, whenever create hands over to init_repository
\* the target holds exactly passphrase.gpg (0600) and objects/ (0700) and is
\* itself 0700; on a Windows build, where the permission calls do nothing and
\* the passphrase file is not looked at, only the two directories are there.
C3_UnixBackendSeesOwnerOnlyLayout ==
    AtDelegation =>
        /\ platform = "unix" => OwnerOnlyLayout(fs)
        /\ fs.repo = "dir" /\ fs.objects = "dir"
        /\ fs.conf = "absent" /\ fs.oconf = "absent"
        /\ ~IsBlank(user) /\ startFs.repo = "absent"

C3_Witness == AtDelegation /\ platform = "unix" /\ OwnerOnlyLayout(fs)

MountCalled ==
    op = "mount" /\ pc # "mount_normalize" /\ normalize_mount_point(mpForm, cwdOk)

BadLayout(f) == f.pp # "file" \/ f.objects # "dir"

AtBackendMount == op = "mount" /\ (pc = "mount_repository" \/ children # <<>>)

\* C4 as claimed: mount called on a repo_dir whose passphrase.gpg is not a
\* regular file or whose objects/ is not a directory always fails with
\* InvalidRepository before any external command is launched, and mount never
\* reaches the backend with such a layout.
C4_BadLayoutIsInvalidRepository ==
    /\ (MountCalled /\ BadLayout(startFs)) =>
          /\ NothingLaunched
          /\ Finished => result.kind = "InvalidRepository"
    /\ AtBackendMount => ~BadLayout(fs)

\* C4 amended: mount called on such a repo_dir always fails before any
\* external command is launched, with InvalidRepository, or, when repo_dir is
\* relative and the current directory cannot be read, with that I/O error;
\* mount never reaches the backend with such a layout.
C4_BadLayoutNeverReachesBackend ==
    /\ (MountCalled /\ BadLayout(startFs)) =>
          /\ NothingLaunched
          /\ Unchanged
          /\ pc \in {"mount", "return", "done"}
          /\ Finished =>
                /\ result.status = "err"
                /\ (repoForm = "abs" \/ cwdOk) => result.kind = "InvalidRepository"
                /\ result.kind \in {"InvalidRepository", "IoFailed"}
    /\ AtBackendMount => ~BadLayout(fs)

C4_Witness ==
    /\ MountCalled /\ BadLayout(startFs) /\ pc = "done"
    /\ result.kind = "InvalidRepository" /\ fs.repo = "dir"

\* C5: create with an empty or whitespace-only recipient always fails with
\* InvalidInput, whatever the target is, and does nothing else: the file
\* system is as it was and no external command is launched.
C5_BlankRecipientWritesNothing ==
    (op = "create" /\ IsBlank(user)) =>
        /\ Unchanged
        /\ NothingLaunched
        /\ pc \in {"create", "return", "done"}
        /\ Finished => result.kind = "InvalidInput"

C5_Witness ==
    /\ op = "create" /\ user = <<" ">> /\ pc = "done"
    /\ repoForm = "rel" /\ ~cwdOk /\ fs.repo = "absent"
    /\ result.kind = "InvalidInput"

TargetTaken == op = "create" /\ ~IsBlank(user) /\ startFs.repo # "absent"

\* C6 as claimed: create with a usable recipient against a target path at
\* which anything already is always fails with AlreadyExists, changes nothing
\* and launches nothing.
C6_TakenTargetIsAlreadyExists ==
    TargetTaken =>
        /\ Unchanged
        /\ NothingLaunched
        /\ Finished => result.kind = "AlreadyExists"

\* C6 amended: such a create always fails, changes nothing and launches
\* nothing; the error is AlreadyExists whenever Path::exists sees the target
\* (a directory or a file, not a dangling symbolic link) and the path can be
\* made absolute (it is absolute, or the current directory can be read).
C6_TakenTargetIsLeftAlone ==
    TargetTaken =>
        /\ Unchanged
        /\ NothingLaunched
        /\ Finished =>
              /\ result.status = "err"
              /\ (startFs.repo \in {"dir", "file"} /\ (repoForm = "abs" \/ cwdOk))
                    => result.kind = "AlreadyExists"

C6_Witness ==
    /\ TargetTaken /\ pc = "done" /\ startFs.repo = "file"
    /\ result.kind = "AlreadyExists"


\* C7 as claimed: from an absent repository directory, create with a usable
\* recipient, then mount, then umount each succeed and exit 0 if every
\* command the tool launches exits 0 (granting, beyond the claim, that no
\* file-system call is refused and the paths are usable), and what a
\* successful create leaves passes mount's layout check.
C7_StubsThatExitZeroSuffice ==
    /\ (stage # "none" /\ Finished /\ chainFaults \subseteq {"effect"}) =>
          /\ result = Ok
          /\ pc = "done" => exitCode = 0
    /\ (stage = "create" /\ result = Ok) => ~BadLayout(fs)

\* C7 amended: the three invocations each succeed and exit 0 if every command
\* the tool launches starts, exits 0 and has produced what the tool then
\* relies on (gpg --encrypt the file passphrase.gpg, the engine's init the
\* file gocryptfs.conf, on Windows in objects/, and gpg --decrypt valid
\* UTF-8), no file-system call is refused, the current directory can be read
\* and the paths are valid UTF-8; what that create leaves passes mount's
\* layout check.
C7_CreateMountUmountSucceed ==
    /\ (stage # "none" /\ Finished /\ chainFaults = {}) =>
          /\ result = Ok
          /\ pc = "done" => exitCode = 0
    /\ (stage = "create" /\ result = Ok /\ chainFaults = {}) => ~BadLayout(fs)
    /\ (stage = "mount" /\ pc = "mount" /\ chainFaults = {}) => ~BadLayout(fs)

C7_Witness ==
    /\ stage = "umount" /\ pc = "done" /\ chainFaults = {}
    /\ result = Ok /\ exitCode = 0 /\ ~BadLayout(fs)

CommandLine(c) == Join(<< <<c.program>> >> \o c.args, <<" ">>)

RanByOutput ==
    /\ children # <<>>
    /\ LastChild.via = "output" /\ LastChild.state = "reaped"
    /\ rwo.status # -1

\* C8: run_with_output runs the command once and goes by its exit status:
\* status 0 returns the captured stdout and stderr; another status returns a
\* CommandFailed error whose message carries the command line and, trimmed,
\* the stderr text when there is some, the stdout text when there is some
\* (stderr first), and the exit status when there is neither; a program that
\* cannot be started gives SpawnFailed.  A failure is returned, never retried.
C8_RunWithOutputClassifies ==
    /\ RanByOutput =>
          LET c == LastChild
              e == Trim(Lossy(c.stderr))
              o == Trim(Lossy(c.stdout))
              msg == IF rwo.err.chain = <<>> THEN <<>> ELSE rwo.err.chain[1]
          IN  /\ c.status = 0 =>
                    /\ rwo.ok /\ rwo.err = NoResult
                    /\ rwo.stdout = c.stdout /\ rwo.stderr = c.stderr
              /\ c.status # 0 =>
                    /\ ~rwo.ok /\ rwo.err.kind = "CommandFailed"
                    /\ Len(rwo.err.chain) = 1
                    /\ Contains(msg, <<Backtick>> \o CommandLine(c) \o <<Backtick>>)
                    /\ e # <<>> <=> Contains(msg, <<"stderr: ">>)
                    /\ e # <<>> => Contains(msg, <<"stderr: ">> \o e)
                    /\ o # <<>> <=> Contains(msg, <<"stdout: ">>)
                    /\ o # <<>> => Contains(msg, <<"stdout: ">> \o o)
                    /\ (e # <<>> /\ o # <<>>) =>
                          Contains(msg, <<"stderr: ">> \o e \o <<"\n", "stdout: ">> \o o)
                    /\ (e = <<>> /\ o = <<>>) <=>
                          Contains(msg, ExitStatusText(c.status))
                    /\ Finished /\ result.status = "err"
                    /\ rwo.err.chain[1] = result.chain[Len(result.chain)]
    /\ (rwo.status = -1 /\ ~rwo.ok) =>
          /\ rwo.err.kind = "SpawnFailed"
          /\ Finished /\ result.status = "err"
    /\ \A i, j \in 1..Len(children) :
          i # j => CommandLine(children[i]) # CommandLine(children[j])

C8_Witness ==
    /\ RanByOutput /\ LastChild.status # 0
    /\ LastChild.stderr = <<" ">> /\ LastChild.stdout = <<>>
    /\ Contains(rwo.err.chain[1], ExitStatusText(LastChild.status))

AfterFailedCreate == leftover /\ op = "create" /\ ~IsBlank(user)

\* C9 as claimed: after a create that failed once the repository directory was
\* made, every later create on that directory with a usable recipient is
\* rejected with AlreadyExists and writes nothing, until the directory is
\* removed from outside.
C9_LeftoverIsAlreadyExists ==
    AfterFailedCreate =>
        /\ Unchanged
        /\ NothingLaunched
        /\ Finished => result.kind = "AlreadyExists"

NothingRemoved ==
    pc # "idle" =>
        /\ fs.repo = "dir" => fs'.repo = "dir"
        /\ fs.objects = "dir" => fs'.objects = "dir"
        /\ fs.pp = "file" => fs'.pp = "file"

LeftoverRejected ==
    /\ leftover => fs.repo = "dir"
    /\ (op = "create" /\ children # <<>>) => fs.repo = "dir"
    /\ AfterFailedCreate =>
          /\ Unchanged
          /\ NothingLaunched
          /\ Finished =>
                /\ result.status = "err"
                /\ (repoForm = "abs" \/ cwdOk) => result.kind = "AlreadyExists"
                /\ result.kind \in {"AlreadyExists", "IoFailed"}

\* C9 amended: create never rolls back: no step of an invocation, its failure
\* and exit included, removes the repository directory, objects/ or
\* passphrase.gpg once they are there; and after a create that failed once
\* the directory was made, every later create on it with a usable recipient
\* is rejected without writing anything, with AlreadyExists, or, when the
\* path is relative and the current directory cannot be read, with that I/O
\* error, until the directory is changed from outside.
C9_NoRollback == []LeftoverRejected /\ [][NothingRemoved]_vars

C9_Witness ==
    /\ AfterFailedCreate /\ pc = "done" /\ result.kind = "AlreadyExists"
    /\ fs.pp = "absent"

DocumentedCommands ==
    CASE op = "create" /\ platform = "unix" ->
           << <<"gpg", "--gen-random">>, <<"gpg", "--encrypt">>,
              <<"gocryptfs", "-init">> >>
      [] op = "create" /\ platform = "windows" ->
           << <<"gpg", "--gen-random">>, <<"gpg", "--encrypt">>,
              <<"gpg", "--decrypt">>, <<"cppcryptfsctl.exe", "--init=">> >>
      [] op = "mount" /\ platform = "unix" -> << <<"gocryptfs", "--config">> >>
      [] op = "mount" /\ platform = "windows" ->
           << <<"gpg", "--decrypt">>, <<"cppcryptfs.exe", "--mount=">> >>
      [] op = "umount" /\ platform = "unix" -> << <<"fusermount", "-u">> >>
      [] op = "umount" /\ platform = "windows" ->
           << <<"cppcryptfs.exe", "--unmount=">> >>
      [] OTHER -> <<>>

LaunchedInOrder ==
    /\ Len(children) <= Len(DocumentedCommands)
    /\ \A i \in 1..Len(children) :
          <<children[i].program, children[i].args[1][1]>> = DocumentedCommands[i]

AwaitedInTurn ==
    \A i \in 1..Len(children) :
        (i < Len(children) /\ children[i].state = "running") =>
            /\ op = "create" /\ i = 1 /\ Len(children) = 2

FailureFaults == {"io", "spawn", "exit", "cwd", "utf8"}

Failed ==
    \/ result.status = "err"
    \/ faults \cap FailureFaults # {} /\ pc # "gen_random_wait"

StepsInOrder ==
    /\ LaunchedInOrder
    /\ AwaitedInTurn
    /\ (op = "create" /\ children # <<>>) =>
          /\ fs.repo = "dir" /\ fs.objects = "dir"
          /\ platform = "unix" => fs.repoMode = DirMode /\ fs.objectsMode = DirMode
    /\ (op = "create" /\ Len(children) >= 3) =>
          /\ children[1].status = 0 /\ children[2].status = 0
          /\ platform = "unix" => fs.ppMode = SecretMode
    /\ (op = "mount" /\ children # <<>>) =>
          fs.mp = "dir" \/ is_windows_drive_letter(mpForm)
    /\ Failed => pc \in {"return", "done"}
    /\ Finished => (Failed <=> result.status = "err")
    /\ pc = "done" => exitCode = IF Failed THEN 1 ELSE 0

AbortsAtFirstFailure ==
    (Failed /\ pc # "idle") =>
        /\ fs' = fs
        /\ pc' \in {"done", "idle"}
        /\ pc' = "done" => children' = children /\ result' = result

\* C10: within one invocation the commands are launched in the documented
\* order, each awaited before anything else is launched (only gpg --gen-random
\* is still running when gpg --encrypt is started), none twice; once a
\* file-system call or an external command has failed, nothing more is
\* written or launched, the failure is returned and the process exits 1.
C10_OrderedAndAbortsAtFirstFailure == []StepsInOrder /\ [][AbortsAtFirstFailure]_vars

C10_Witness ==
    /\ op = "create" /\ pc = "done" /\ exitCode = 1
    /\ Len(children) = 2 /\ children[1].status # 0 /\ children[2].status = 0
    /\ "exit" \in faults

====
